---- MODULE Spec2Model ----
(***************************************************************************)
(* Nullable integer scalars of package null: Int16 (src/int16.go), Uint    *)
(* (src/uint.go) and Uint64 (src/unnamed/part_000).                        *)
(*                                                                         *)
(* Machine words.  TLC's integers are 32 bits wide, so a 64-bit word       *)
(* (uint64, int64, and uint on a 64-bit build) is kept as four 16-bit      *)
(* limbs <<l3, l2, l1, l0>>, most significant first.  An int64 is the same *)
(* four limbs read in two's complement, so the Go conversions uint64(i)    *)
(* and int64(u) keep the limbs, as they keep the bits.  An int16 is a      *)
(* TLA+ integer in -32768 .. 32767.  The size of uint depends on the       *)
(* build: UintSize is 32 or 64, and a uint of 32 bits has its two high     *)
(* limbs 0.                                                                *)
(*                                                                         *)
(* Byte strings are sequences of one-character strings: "42" is            *)
(* <<"4", "2">>.                                                           *)
(***************************************************************************)
EXTENDS Integers, Sequences, FiniteSets, TLC

VARIABLES T, UintSize, i, u, u64, last

vars == <<T, UintSize, i, u, u64, last>>

(***************************************************************************)
(* 64-bit words                                                            *)
(***************************************************************************)

\* F(x), with x evaluated once, however often F uses it.
With(x, F(_)) == CHOOSE r \in {F(v) : v \in {x}} : TRUE

\* The limb radix, 2^16.
Base == 2^16

\* math.MaxInt16.
MaxInt16 == 32767

\* The word of a natural number below 2^31.
W(n) == <<0, 0, n \div Base, n % Base>>

Zero64 == <<0, 0, 0, 0>>

\* 1<<63: the least uint64 above the int64 range, and the limbs of math.MinInt64.
Pow63 == <<Base \div 2, 0, 0, 0>>

\* math.MaxInt64.
MaxInt64 == <<(Base \div 2) - 1, Base - 1, Base - 1, Base - 1>>

\* math.MaxUint64, and the limbs of int64(-1).
MaxUint64 == <<Base - 1, Base - 1, Base - 1, Base - 1>>

\* math.MaxUint32, and 1<<32, the least uint64 above it.
MaxUint32 == <<0, 0, Base - 1, Base - 1>>
Pow32 == <<0, 1, 0, 0>>

\* a < b for uint64.
LtU(a, b) ==
    \E k \in 1..4 : /\ a[k] < b[k]
                    /\ \A j \in 1..(k - 1) : a[j] = b[j]

\* i < 0 for an int64: its sign bit.
IsNeg(w) == w[1] >= Base \div 2

\* a < b for int64.
LtS(a, b) ==
    IF IsNeg(a) # IsNeg(b) THEN IsNeg(a) ELSE LtU(a, b)

\* w * m + a on 64 bits, for m and a below 2^15: the low 64 bits and what is carried out.
MulAdd(w, m, a) ==
    LET t4 == w[4] * m + a
        t3 == w[3] * m + (t4 \div Base)
        t2 == w[2] * m + (t3 \div Base)
        t1 == w[1] * m + (t2 \div Base)
    IN  [w     |-> <<t1 % Base, t2 % Base, t3 % Base, t4 % Base>>,
         carry |-> t1 \div Base]

\* The quotient and the remainder of uint64 w by d, for 0 < d < 2^15.
DivMod(w, d) ==
    LET r1 == w[1] % d
        n2 == r1 * Base + w[2]
        r2 == n2 % d
        n3 == r2 * Base + w[3]
        r3 == n3 % d
        n4 == r3 * Base + w[4]
    IN  [q |-> <<w[1] \div d, n2 \div d, n3 \div d, n4 \div d>>,
         r |-> n4 % d]

\* -w on 64 bits (two's complement): every bit flipped, plus one.
Neg64(w) ==
    MulAdd(<<Base - 1 - w[1], Base - 1 - w[2], Base - 1 - w[3], Base - 1 - w[4]>>, 1, 1).w

\* The int64 of an integer n with -2^31 < n < 2^31.
I64(n) == IF n < 0 THEN Neg64(W(-n)) ELSE W(n)

\* int16(x) of an int64 x: the low 16 bits, read in two's complement.
ToInt16(w) == IF w[4] >= Base \div 2 THEN w[4] - Base ELSE w[4]

\* int64(v) of an int16 v (sign extension).
FromInt16(v) == I64(v)

(***************************************************************************)
(* strconv                                                                 *)
(***************************************************************************)

DigitChars == <<"0", "1", "2", "3", "4", "5", "6", "7", "8", "9">>

IsDigit(c) == \E d \in 1..10 : DigitChars[d] = c

DigitVal(c) == (CHOOSE d \in 1..10 : DigitChars[d] = c) - 1

\* The decimal digits of uint64 w, most significant first; none for 0.
RECURSIVE Digits(_)
Digits(w) ==
    IF w = Zero64
    THEN <<>>
    ELSE With(DivMod(w, 10), LAMBDA dm : Append(Digits(dm.q), DigitChars[dm.r + 1]))

\* strconv.FormatUint(w, 10).
FormatUint(w) == IF w = Zero64 THEN <<"0">> ELSE Digits(w)

\* strconv.FormatInt(w, 10) of an int64.
FormatInt(w) == IF IsNeg(w) THEN <<"-">> \o FormatUint(Neg64(w)) ELSE FormatUint(w)

\* The largest unsigned value of bitSize bits; bitSize 0 is uint's size.
MaxVal(bitSize) ==
    CASE (IF bitSize = 0 THEN UintSize ELSE bitSize) = 64 -> MaxUint64
      [] (IF bitSize = 0 THEN UintSize ELSE bitSize) = 32 -> MaxUint32
      [] OTHER -> W(Base - 1)

\* The loop of strconv.ParseUint from character k on, with n read so far.
RECURSIVE ParseUintFrom(_, _, _, _)
ParseUintFrom(s, k, n, maxVal) ==
    IF k > Len(s)
    THEN [val |-> n, err |-> "nil"]
    ELSE IF ~IsDigit(s[k])
    THEN [val |-> Zero64, err |-> "ErrSyntax"]
    ELSE With(MulAdd(n, 10, DigitVal(s[k])),
              LAMBDA m : IF m.carry # 0 \/ LtU(maxVal, m.w)
                         THEN [val |-> maxVal, err |-> "ErrRange"]
                         ELSE ParseUintFrom(s, k + 1, m.w, maxVal))

\* strconv.ParseUint(s, 10, bitSize): the uint64 and the error.
ParseUint(s, bitSize) ==
    IF s = <<>>
    THEN [val |-> Zero64, err |-> "ErrSyntax"]
    ELSE ParseUintFrom(s, 1, Zero64, MaxVal(bitSize))

\* The end of strconv.ParseInt: the sign and the range of the magnitude un that
\* ParseUint read; cutoff is 1 << (bitSize - 1).
ParseIntSigned(neg, un, cutoff) ==
    IF un.err = "ErrSyntax"
    THEN [val |-> Zero64, err |-> "ErrSyntax"]
    ELSE IF ~neg /\ ~LtU(un.val, cutoff)
    THEN [val |-> MulAdd(cutoff, 1, -1).w, err |-> "ErrRange"]
    ELSE IF neg /\ LtU(cutoff, un.val)
    THEN [val |-> Neg64(cutoff), err |-> "ErrRange"]
    ELSE [val |-> IF neg THEN Neg64(un.val) ELSE un.val, err |-> "nil"]

\* strconv.ParseInt(s, 10, bitSize), for bitSize 16 or 64: the int64 and the error.
ParseInt(s, bitSize) ==
    IF s = <<>>
    THEN [val |-> Zero64, err |-> "ErrSyntax"]
    ELSE With(ParseUint(IF s[1] \in {"+", "-"} THEN Tail(s) ELSE s, bitSize),
              LAMBDA un : ParseIntSigned(s[1] = "-", un,
                                         IF bitSize = 64 THEN Pow63 ELSE W(Base \div 2)))

(***************************************************************************)
(* encoding/json, for the tokens of the alphabet used here: no escapes     *)
(* inside strings, the space as the only white space, and {} and [] as     *)
(* the only object and array.                                              *)
(***************************************************************************)

\* NullBytes, the JSON null literal.
NullBytes == <<"n", "u", "l", "l">>

\* s without its leading and trailing white space.
RECURSIVE Trim(_)
Trim(s) ==
    IF s = <<>> THEN s
    ELSE IF Head(s) = " " THEN Trim(Tail(s))
    ELSE IF s[Len(s)] = " " THEN Trim(SubSeq(s, 1, Len(s) - 1))
    ELSE s

\* The last index of the run of digits of s that starts at k; k - 1 when there is none.
RECURSIVE DigitsRun(_, _)
DigitsRun(s, k) ==
    IF k <= Len(s) /\ IsDigit(s[k]) THEN DigitsRun(s, k + 1) ELSE k - 1

\* The exponent of a JSON number, after its fraction, which ends at fracEnd:
\* ([eE] [+-]? [0-9]+)?, and then the end of s.
NumExp(s, fracEnd) ==
    IF fracEnd < Len(s) /\ s[fracEnd + 1] \in {"e", "E"}
    THEN With(IF fracEnd + 1 < Len(s) /\ s[fracEnd + 2] \in {"+", "-"}
              THEN fracEnd + 3 ELSE fracEnd + 2,
              LAMBDA expFrom : DigitsRun(s, expFrom) >= expFrom
                               /\ DigitsRun(s, expFrom) = Len(s))
    ELSE fracEnd = Len(s)

\* The fraction of a JSON number, after its integer part, which ends at
\* intEnd: (. [0-9]+)?, and then the exponent.
NumFrac(s, intEnd) ==
    IF intEnd < Len(s) /\ s[intEnd + 1] = "."
    THEN With(DigitsRun(s, intEnd + 2),
              LAMBDA fracEnd : fracEnd >= intEnd + 2 /\ NumExp(s, fracEnd))
    ELSE NumExp(s, intEnd)

\* Whether s is a JSON number: -? (0 | [1-9][0-9]*) (. [0-9]+)? ([eE] [+-]? [0-9]+)?
IsJSONNumber(s) ==
    With(IF s # <<>> /\ s[1] = "-" THEN 2 ELSE 1,
         LAMBDA start :
            With(DigitsRun(s, start),
                 LAMBDA intEnd : /\ intEnd >= start
                                 /\ s[start] = "0" => intEnd = start
                                 /\ NumFrac(s, intEnd)))

\* What the JSON text s, without white space around it, holds: "invalid" when
\* it is not one JSON value.
JSONKind(s) ==
    IF s = NullBytes THEN "nil"
    ELSE IF s \in {<<"t", "r", "u", "e">>, <<"f", "a", "l", "s", "e">>} THEN "bool"
    ELSE IF s = <<"{", "}">> THEN "map"
    ELSE IF s = <<"[", "]">> THEN "slice"
    ELSE IF /\ Len(s) >= 2
            /\ s[1] = "\"" /\ s[Len(s)] = "\""
            /\ \A k \in 2..(Len(s) - 1) : s[k] \notin {"\"", "\\"}
         THEN "string"
    ELSE IF IsJSONNumber(s) THEN "float64"
    ELSE "invalid"

\* json.Unmarshal(data, &v) for v interface{}: the dynamic type of v (and the
\* string, for a string), or a syntax error.
UnmarshalAny(data) ==
    With(Trim(data),
         LAMBDA s :
            With(JSONKind(s),
                 LAMBDA k :
                    IF k = "invalid"
                    THEN [kind |-> "nil", str |-> <<>>, err |-> "SyntaxError"]
                    ELSE [kind |-> k,
                          str  |-> IF k = "string" THEN SubSeq(s, 2, Len(s) - 1) ELSE <<>>,
                          err  |-> "nil"]))

\* What json.Unmarshal(data, &x) does for x a 64-bit integer holding old, p
\* being what strconv made of the text: a number that strconv rejects, and
\* every value that is neither a number nor null, is a type error that leaves
\* x alone; null leaves x alone and is no error.
UnmarshalNumber(k, p, old) ==
    IF k = "invalid" THEN [val |-> old, err |-> "SyntaxError"]
    ELSE IF k = "nil" THEN [val |-> old, err |-> "nil"]
    ELSE IF k = "float64" /\ p.err = "nil" THEN [val |-> p.val, err |-> "nil"]
    ELSE [val |-> old, err |-> "UnmarshalTypeError"]

\* json.Unmarshal(data, &x) for x int64 holding old.
UnmarshalInt64(data, old) ==
    With(Trim(data), LAMBDA s : With(ParseInt(s, 64),
                                     LAMBDA p : UnmarshalNumber(JSONKind(s), p, old)))

\* json.Unmarshal(data, &x) for x uint64 holding old.
UnmarshalUint64(data, old) ==
    With(Trim(data), LAMBDA s : With(ParseUint(s, 64),
                                     LAMBDA p : UnmarshalNumber(JSONKind(s), p, old)))

(***************************************************************************)
(* Driver values and convert.ConvertAssign                                 *)
(***************************************************************************)

\* Pointers: the nil pointer, and a pointer to a variable holding v.
NilPtr == [k |-> "nil"]
Ptr(v) == [k |-> "ptr", v |-> v]

DriverNil == [k |-> "nil"]
DriverInt64(w) == [k |-> "int64", w |-> w]
DriverString(s) == [k |-> "string", s |-> s]
DriverBytes(s) == [k |-> "bytes", s |-> s]
DriverBool(b) == [k |-> "bool", b |-> b]
\* Not a driver value: what Uint64.Scan hands to ConvertAssign for a negative int64.
GoUint64(w) == [k |-> "uint64", w |-> w]

\* asString(src) of ConvertAssign.
AsString(src) ==
    CASE src.k = "string" -> src.s
      [] src.k = "bytes"  -> src.s
      [] src.k = "int64"  -> FormatInt(src.w)
      [] src.k = "uint64" -> FormatUint(src.w)
      [] src.k = "bool"   -> IF src.b THEN <<"t", "r", "u", "e">>
                                      ELSE <<"f", "a", "l", "s", "e">>

\* convert.ConvertAssign(&dest, src) for dest an int16 holding old: src as a
\* string, parsed on 16 bits; on an error dest keeps old.
ConvertAssignInt16(old, src) ==
    With(ParseInt(AsString(src), 16),
         LAMBDA p : IF p.err = "nil"
                    THEN [val |-> ToInt16(p.val), err |-> "nil"]
                    ELSE [val |-> old, err |-> "ConversionError"])

\* convert.ConvertAssign(&dest, src) for dest of kind "uint" or "uint64"
\* holding old: a src of dest's own kind is stored as it is, anything else is
\* parsed from its string on dest's bits.
ConvertAssignUint(old, src, kind) ==
    IF src.k = kind
    THEN [val |-> src.w, err |-> "nil"]
    ELSE With(ParseUint(AsString(src), IF kind = "uint" THEN UintSize ELSE 64),
              LAMBDA p : IF p.err = "nil"
                         THEN [val |-> p.val, err |-> "nil"]
                         ELSE [val |-> old, err |-> "ConversionError"])

(***************************************************************************)
(* Int16 (src/int16.go).  An operation on a receiver is an operator from   *)
(* the receiver (and the arguments) to the receiver afterwards and the     *)
(* error returned.                                                         *)
(***************************************************************************)

NewInt16(n, valid, set) == [Int16 |-> n, Valid |-> valid, set |-> set]

Int16From(n) == NewInt16(n, TRUE, TRUE)

Int16FromPtr(p) ==
    IF p = NilPtr THEN NewInt16(0, FALSE, TRUE) ELSE NewInt16(p.v, TRUE, TRUE)

Int16_IsSet(self) == self.set

Int16_UnmarshalJSON(self, data) ==
    IF data = NullBytes
    THEN [self |-> [Int16 |-> 0, Valid |-> FALSE, set |-> TRUE], err |-> "nil"]
    ELSE With(UnmarshalInt64(data, Zero64),
              LAMBDA x :
                 IF x.err # "nil"
                 THEN [self |-> [self EXCEPT !.set = TRUE], err |-> x.err]
                 ELSE IF LtS(W(MaxInt16), x.val)
                 THEN [self |-> [self EXCEPT !.set = TRUE], err |-> "overflow"]
                 ELSE [self |-> [Int16 |-> ToInt16(x.val), Valid |-> TRUE, set |-> TRUE],
                       err  |-> "nil"])

Int16_UnmarshalText(self, text) ==
    IF Len(text) = 0
    THEN [self |-> [self EXCEPT !.set = TRUE, !.Valid = FALSE], err |-> "nil"]
    ELSE With(ParseInt(text, 16),
              LAMBDA res :
                 IF res.err = "nil"
                 THEN [self |-> [Int16 |-> ToInt16(res.val), Valid |-> TRUE, set |-> TRUE],
                       err  |-> "nil"]
                 ELSE [self |-> [self EXCEPT !.set = TRUE, !.Valid = FALSE], err |-> res.err])

Int16_MarshalJSON(self) ==
    IF ~self.Valid THEN NullBytes ELSE FormatInt(FromInt16(self.Int16))

\* Int16_MarshalText without the test of Valid.
Int16_MarshalText_NoCheck(self) == FormatInt(FromInt16(self.Int16))

Int16_MarshalText(self) ==
    IF ~self.Valid THEN <<>> ELSE FormatInt(FromInt16(self.Int16))

Int16_SetValid(self, n) == [self EXCEPT !.Int16 = n, !.Valid = TRUE, !.set = TRUE]

Int16_Ptr(self) == IF ~self.Valid THEN NilPtr ELSE Ptr(self.Int16)

Int16_IsZero(self) == ~self.Valid

Int16_Scan(self, value) ==
    IF value = DriverNil
    THEN [self |-> [Int16 |-> 0, Valid |-> FALSE, set |-> FALSE], err |-> "nil"]
    ELSE With(ConvertAssignInt16(self.Int16, value),
              LAMBDA c : [self |-> [Int16 |-> c.val, Valid |-> TRUE, set |-> TRUE],
                          err  |-> c.err])

Int16_Value(self) ==
    IF ~self.Valid THEN DriverNil ELSE DriverInt64(FromInt16(self.Int16))

\* x % d of Go for an int64 x and 0 < d < 2^15: the remainder has x's sign.
RemInt64(x, d) ==
    IF IsNeg(x) THEN I64(-(DivMod(Neg64(x), d).r)) ELSE I64(DivMod(x, d).r)

\* Int16_Randomize storing a zero Int16 when shouldBeNull.
Int16_Randomize_Reset(self, next, shouldBeNull) ==
    IF shouldBeNull
    THEN [Int16 |-> 0, Valid |-> FALSE, set |-> FALSE]
    ELSE [self EXCEPT !.Int16 = ToInt16(RemInt64(next, MaxInt16)), !.Valid = TRUE]

\* next is what nextInt() returns.
Int16_Randomize(self, next, shouldBeNull) ==
    IF shouldBeNull
    THEN [self EXCEPT !.Int16 = 0, !.Valid = FALSE]
    ELSE [self EXCEPT !.Int16 = ToInt16(RemInt64(next, MaxInt16)), !.Valid = TRUE]

(***************************************************************************)
(* Uint (src/uint.go)                                                     *)
(***************************************************************************)

NewUint(n, valid) == [Uint |-> n, Valid |-> valid]

UintFrom(n) == NewUint(n, TRUE)

UintFromPtr(p) ==
    IF p = NilPtr THEN NewUint(Zero64, FALSE) ELSE NewUint(p.v, TRUE)

\* uint(x) of a uint64 x: x itself when uint has 64 bits, its low 32 bits otherwise.
ToUint(x) == IF UintSize = 64 THEN x ELSE <<0, 0, x[3], x[4]>>

Uint_UnmarshalJSON(self, data) ==
    IF data = NullBytes
    THEN [self |-> [Uint |-> Zero64, Valid |-> FALSE], err |-> "nil"]
    ELSE With(UnmarshalAny(data),
              LAMBDA v :
                 IF v.err # "nil"
                 THEN [self |-> self, err |-> v.err]
                 ELSE IF v.kind = "string" /\ Len(v.str) = 0
                 THEN [self |-> [self EXCEPT !.Valid = FALSE], err |-> "nil"]
                 ELSE IF v.kind = "nil"
                 THEN [self |-> [self EXCEPT !.Valid = FALSE], err |-> "nil"]
                 ELSE With(CASE v.kind = "float64" -> UnmarshalUint64(data, Zero64)
                             [] v.kind = "string"  -> ParseUint(v.str, 64)
                             [] OTHER -> [val |-> Zero64, err |-> "TypeMismatchError"],
                           LAMBDA r :
                              [self |-> [Uint |-> ToUint(r.val),
                                         Valid |-> (r.err = "nil") /\ (ToUint(r.val) # Zero64)],
                               err  |-> r.err]))

\* Uint_UnmarshalText with UnmarshalJSON's rule that 0 is null.
Uint_UnmarshalText_ZeroNull(self, text) ==
    IF Len(text) = 0
    THEN [self |-> [self EXCEPT !.Valid = FALSE], err |-> "nil"]
    ELSE With(ParseUint(text, 0),
              LAMBDA res :
                 IF res.err = "nil" /\ res.val # Zero64
                 THEN [self |-> [Uint |-> ToUint(res.val), Valid |-> TRUE], err |-> "nil"]
                 ELSE [self |-> [self EXCEPT !.Valid = FALSE], err |-> res.err])

Uint_UnmarshalText(self, text) ==
    IF Len(text) = 0
    THEN [self |-> [self EXCEPT !.Valid = FALSE], err |-> "nil"]
    ELSE With(ParseUint(text, 0),
              LAMBDA res :
                 IF res.err = "nil"
                 THEN [self |-> [Uint |-> ToUint(res.val), Valid |-> TRUE], err |-> "nil"]
                 ELSE [self |-> [self EXCEPT !.Valid = FALSE], err |-> res.err])

Uint_MarshalJSON(self) ==
    IF ~self.Valid THEN NullBytes ELSE FormatUint(self.Uint)

Uint_MarshalText(self) ==
    IF ~self.Valid THEN <<>> ELSE FormatUint(self.Uint)

Uint_SetValid(self, n) == [self EXCEPT !.Uint = n, !.Valid = TRUE]

Uint_Ptr(self) == IF ~self.Valid THEN NilPtr ELSE Ptr(self.Uint)

Uint_IsZero(self) == ~self.Valid

Uint_Scan(self, value) ==
    IF value = DriverNil
    THEN [self |-> [Uint |-> Zero64, Valid |-> FALSE], err |-> "nil"]
    ELSE With(ConvertAssignUint(self.Uint, value, "uint"),
              LAMBDA c : [self |-> [Uint |-> c.val, Valid |-> TRUE], err |-> c.err])

\* int64(u.Uint) keeps the bits: a uint of 2^63 or more comes out negative.
Uint_Value(self) ==
    IF ~self.Valid THEN DriverNil ELSE DriverInt64(self.Uint)

Uint_Randomize(self, next, shouldBeNull) ==
    IF shouldBeNull
    THEN [self EXCEPT !.Uint = Zero64, !.Valid = FALSE]
    ELSE [self EXCEPT !.Uint = ToUint(next), !.Valid = TRUE]

(***************************************************************************)
(* Uint64 (src/unnamed/part_000)                                          *)
(***************************************************************************)

NewUint64(n, valid) == [Uint64 |-> n, Valid |-> valid]

Uint64From(n) == NewUint64(n, TRUE)

Uint64FromPtr(p) ==
    IF p = NilPtr THEN NewUint64(Zero64, FALSE) ELSE NewUint64(p.v, TRUE)

Uint64_UnmarshalJSON(self, data) ==
    IF data = NullBytes
    THEN [self |-> [Uint64 |-> Zero64, Valid |-> FALSE], err |-> "nil"]
    ELSE With(UnmarshalAny(data),
              LAMBDA v :
                 IF v.err # "nil"
                 THEN [self |-> self, err |-> v.err]
                 ELSE IF v.kind = "string" /\ Len(v.str) = 0
                 THEN [self |-> [self EXCEPT !.Valid = FALSE], err |-> "nil"]
                 ELSE IF v.kind = "nil"
                 THEN [self |-> [self EXCEPT !.Valid = FALSE], err |-> "nil"]
                 ELSE With(CASE v.kind = "float64" -> UnmarshalUint64(data, self.Uint64)
                             [] v.kind = "string"  -> ParseUint(v.str, 64)
                             [] OTHER -> [val |-> self.Uint64, err |-> "TypeMismatchError"],
                           LAMBDA r :
                              [self |-> [Uint64 |-> r.val,
                                         Valid |-> (r.err = "nil") /\ (r.val # Zero64)],
                               err  |-> r.err]))

Uint64_UnmarshalText(self, text) ==
    IF Len(text) = 0
    THEN [self |-> [self EXCEPT !.Valid = FALSE], err |-> "nil"]
    ELSE With(ParseUint(text, 64),
              LAMBDA res :
                 IF res.err = "nil"
                 THEN [self |-> [Uint64 |-> res.val, Valid |-> TRUE], err |-> "nil"]
                 ELSE [self |-> [self EXCEPT !.Valid = FALSE], err |-> res.err])

\* Uint64_MarshalJSON with the value formatted as a signed integer.
Uint64_MarshalJSON_Signed(self) ==
    IF ~self.Valid THEN NullBytes ELSE FormatInt(self.Uint64)

Uint64_MarshalJSON(self) ==
    IF ~self.Valid THEN NullBytes ELSE FormatUint(self.Uint64)

Uint64_MarshalText(self) ==
    IF ~self.Valid THEN <<>> ELSE FormatUint(self.Uint64)

Uint64_SetValid(self, n) == [self EXCEPT !.Uint64 = n, !.Valid = TRUE]

Uint64_Ptr(self) == IF ~self.Valid THEN NilPtr ELSE Ptr(self.Uint64)

Uint64_IsZero(self) == ~self.Valid

\* Uint64_Scan handing a negative int64 to ConvertAssign as it is.
Uint64_Scan_NoReinterpret(self, value) ==
    IF value = DriverNil
    THEN [self |-> [Uint64 |-> Zero64, Valid |-> FALSE], err |-> "nil"]
    ELSE With(ConvertAssignUint(self.Uint64, value, "uint64"),
              LAMBDA c : [self |-> [Uint64 |-> c.val, Valid |-> TRUE], err |-> c.err])

\* A negative int64 is handed to ConvertAssign as uint64(i), the same bits.
Uint64_Scan(self, value) ==
    IF value = DriverNil
    THEN [self |-> [Uint64 |-> Zero64, Valid |-> FALSE], err |-> "nil"]
    ELSE With(ConvertAssignUint(self.Uint64,
                                IF value.k = "int64" /\ IsNeg(value.w)
                                THEN GoUint64(value.w) ELSE value,
                                "uint64"),
              LAMBDA c : [self |-> [Uint64 |-> c.val, Valid |-> TRUE], err |-> c.err])

\* Uint64_Value without the string for the values above the int64 range.
Uint64_Value_NoString(self) ==
    IF ~self.Valid THEN DriverNil ELSE DriverInt64(self.Uint64)

\* A value of 1<<63 or more goes out as its decimal string.
Uint64_Value(self) ==
    IF ~self.Valid THEN DriverNil
    ELSE IF ~LtU(self.Uint64, Pow63) THEN DriverString(FormatUint(self.Uint64))
    ELSE DriverInt64(self.Uint64)

Uint64_Randomize(self, next, shouldBeNull) ==
    IF shouldBeNull
    THEN [self EXCEPT !.Uint64 = Zero64, !.Valid = FALSE]
    ELSE [self EXCEPT !.Uint64 = next, !.Valid = TRUE]

(***************************************************************************)
(* Inputs.  The values are the ends of each range, the values next to      *)
(* them, and the small numbers 0 .. MaxSmall.                              *)
(***************************************************************************)

MaxSmall == 2

TestInt16 == (0..MaxSmall) \cup {-1, MaxInt16, -MaxInt16 - 1}

TestUint64 ==
    {W(n) : n \in 0..MaxSmall} \cup {MaxUint32, Pow32, MaxInt64, Pow63, MaxUint64}

\* The values a uint can hold on the build.
TestUint == IF UintSize = 64 THEN TestUint64 ELSE {W(n) : n \in 0..MaxSmall} \cup {MaxUint32}

TestInt64 ==
    {I64(n) : n \in (-1)..MaxSmall}
        \cup {W(MaxInt16), W(MaxInt16 + 1), I64(-MaxInt16 - 1), I64(-MaxInt16 - 2),
              MaxInt64, Pow63}

\* s between double quotes: a JSON string.
Quote(s) == <<"\"">> \o s \o <<"\"">>

\* 18446744073709551616, one more than math.MaxUint64.
TooBig == SubSeq(FormatUint(MaxUint64), 1, Len(FormatUint(MaxUint64)) - 1) \o <<"6">>

\* The JSON texts handed to UnmarshalJSON: null, integers, and one of each
\* other shape (white space before null, the empty text, a text that is not
\* JSON, a fraction, strings, an object, a boolean, an integer above uint64).
JSONInputs ==
    {NullBytes}
        \cup {FormatInt(x) : x \in TestInt64}
        \cup {FormatUint(x) : x \in TestUint64}
        \cup {Quote(FormatUint(x)) : x \in {W(0), W(1), MaxUint64}}
        \cup {<<" ">> \o NullBytes, <<>>, <<"x">>, <<"1", ".", "5">>, <<"-", "0">>, Quote(<<>>),
              Quote(<<"x">>), Quote(TooBig), <<"{", "}">>, <<"t", "r", "u", "e">>, TooBig}

\* The texts handed to UnmarshalText.
TextInputs ==
    {<<>>, <<"x">>, <<"+", "1">>, TooBig}
        \cup {FormatInt(x) : x \in TestInt64}
        \cup {FormatUint(x) : x \in TestUint64}

\* The driver values handed to Scan.
ScanInputs ==
    {DriverNil, DriverString(<<"x">>), DriverBytes(<<"1">>), DriverBool(TRUE)}
        \cup {DriverInt64(x) : x \in TestInt64}
        \cup {DriverString(FormatUint(x)) : x \in TestUint64}

(***************************************************************************)
(* State.  T is the type of the instance the calls are made on (instances  *)
(* share nothing, so one is followed at a time); UintSize is the number of *)
(* bits of uint on the build, which matters to the Uint alone; i, u and    *)
(* u64 are the Int16, the Uint and the Uint64; last is the last call: its  *)
(* name, its argument, the error it returned and, for a round trip, the    *)
(* instance that was decoded.                                              *)
(***************************************************************************)

None == [k |-> "none"]

Bytes(s) == [k |-> "bytes", s |-> s]

Call(op, arg, err, out) == [op |-> op, arg |-> arg, err |-> err, out |-> out]

\* The zero values: var x Int16, var x Uint, var x Uint64.
ZeroInt16 == [Int16 |-> 0, Valid |-> FALSE, set |-> FALSE]
ZeroUint == [Uint |-> Zero64, Valid |-> FALSE]
ZeroUint64 == [Uint64 |-> Zero64, Valid |-> FALSE]

Init ==
    /\ T \in {"Int16", "Uint", "Uint64"}
    /\ UintSize \in IF T = "Uint" THEN {32, 64} ELSE {64}
    /\ i = ZeroInt16
    /\ u = ZeroUint
    /\ u64 = ZeroUint64
    /\ last = Call("init", None, "nil", None)

(***************************************************************************)
(* Calls on the Int16                                                      *)
(***************************************************************************)

Call_NewInt16 ==
    /\ T = "Int16"
    /\ \E n \in TestInt16, valid \in BOOLEAN, set \in BOOLEAN :
          /\ i' = NewInt16(n, valid, set)
          /\ last' = Call("New", [k |-> "int16", n |-> n], "nil", None)
    /\ UNCHANGED <<T, UintSize, u, u64>>

Call_Int16From ==
    /\ T = "Int16"
    /\ \E n \in TestInt16 :
          /\ i' = Int16From(n)
          /\ last' = Call("From", [k |-> "int16", n |-> n], "nil", None)
    /\ UNCHANGED <<T, UintSize, u, u64>>

Call_Int16FromPtr ==
    /\ T = "Int16"
    /\ \E p \in {Ptr(n) : n \in TestInt16} \cup {NilPtr} :
          /\ i' = Int16FromPtr(p)
          /\ last' = Call("FromPtr", p, "nil", None)
    /\ UNCHANGED <<T, UintSize, u, u64>>

Call_Int16_UnmarshalJSON ==
    /\ T = "Int16"
    /\ \E data \in JSONInputs :
          \E r \in {Int16_UnmarshalJSON(i, data)} :
              /\ i' = r.self
              /\ last' = Call("UnmarshalJSON", Bytes(data), r.err, None)
    /\ UNCHANGED <<T, UintSize, u, u64>>

Call_Int16_UnmarshalText ==
    /\ T = "Int16"
    /\ \E text \in TextInputs :
          \E r \in {Int16_UnmarshalText(i, text)} :
              /\ i' = r.self
              /\ last' = Call("UnmarshalText", Bytes(text), r.err, None)
    /\ UNCHANGED <<T, UintSize, u, u64>>

Call_Int16_SetValid ==
    /\ T = "Int16"
    /\ \E n \in TestInt16 :
          /\ i' = Int16_SetValid(i, n)
          /\ last' = Call("SetValid", [k |-> "int16", n |-> n], "nil", None)
    /\ UNCHANGED <<T, UintSize, u, u64>>

Call_Int16_Scan ==
    /\ T = "Int16"
    /\ \E value \in ScanInputs :
          \E r \in {Int16_Scan(i, value)} :
              /\ i' = r.self
              /\ last' = Call("Scan", value, r.err, None)
    /\ UNCHANGED <<T, UintSize, u, u64>>

Call_Int16_Randomize ==
    /\ T = "Int16"
    /\ \E next \in TestInt64, shouldBeNull \in BOOLEAN :
          /\ i' = Int16_Randomize(i, next, shouldBeNull)
          /\ last' = Call("Randomize", [k |-> "rand", w |-> next, null |-> shouldBeNull],
                          "nil", None)
    /\ UNCHANGED <<T, UintSize, u, u64>>

\* MarshalJSON of the Int16, and UnmarshalJSON of the bytes on a zero Int16.
JSONRoundTrip_Int16 ==
    /\ T = "Int16"
    /\ \E data \in {Int16_MarshalJSON(i)} :
          \E r \in {Int16_UnmarshalJSON(ZeroInt16, data)} :
              last' = Call("JSONRoundTrip", Bytes(data), r.err, r.self)
    /\ UNCHANGED <<T, UintSize, i, u, u64>>

\* MarshalText of the Int16, and UnmarshalText of the bytes on a zero Int16.
TextRoundTrip_Int16 ==
    /\ T = "Int16"
    /\ \E text \in {Int16_MarshalText(i)} :
          \E r \in {Int16_UnmarshalText(ZeroInt16, text)} :
              last' = Call("TextRoundTrip", Bytes(text), r.err, r.self)
    /\ UNCHANGED <<T, UintSize, i, u, u64>>

\* Value of the Int16, and Scan of the driver value on a zero Int16.
SQLRoundTrip_Int16 ==
    /\ T = "Int16"
    /\ \E value \in {Int16_Value(i)} :
          \E r \in {Int16_Scan(ZeroInt16, value)} :
              last' = Call("SQLRoundTrip", value, r.err, r.self)
    /\ UNCHANGED <<T, UintSize, i, u, u64>>

Next_Int16 ==
    \/ Call_NewInt16
    \/ Call_Int16From
    \/ Call_Int16FromPtr
    \/ Call_Int16_UnmarshalJSON
    \/ Call_Int16_UnmarshalText
    \/ Call_Int16_SetValid
    \/ Call_Int16_Scan
    \/ Call_Int16_Randomize
    \/ JSONRoundTrip_Int16
    \/ TextRoundTrip_Int16
    \/ SQLRoundTrip_Int16

(***************************************************************************)
(* Calls on the Uint                                                       *)
(***************************************************************************)

Call_NewUint ==
    /\ T = "Uint"
    /\ \E n \in TestUint, valid \in BOOLEAN :
          /\ u' = NewUint(n, valid)
          /\ last' = Call("New", [k |-> "uint64", w |-> n], "nil", None)
    /\ UNCHANGED <<T, UintSize, i, u64>>

Call_UintFrom ==
    /\ T = "Uint"
    /\ \E n \in TestUint :
          /\ u' = UintFrom(n)
          /\ last' = Call("From", [k |-> "uint64", w |-> n], "nil", None)
    /\ UNCHANGED <<T, UintSize, i, u64>>

Call_UintFromPtr ==
    /\ T = "Uint"
    /\ \E p \in {Ptr(n) : n \in TestUint} \cup {NilPtr} :
          /\ u' = UintFromPtr(p)
          /\ last' = Call("FromPtr", p, "nil", None)
    /\ UNCHANGED <<T, UintSize, i, u64>>

Call_Uint_UnmarshalJSON ==
    /\ T = "Uint"
    /\ \E data \in JSONInputs :
          \E r \in {Uint_UnmarshalJSON(u, data)} :
              /\ u' = r.self
              /\ last' = Call("UnmarshalJSON", Bytes(data), r.err, None)
    /\ UNCHANGED <<T, UintSize, i, u64>>

Call_Uint_UnmarshalText ==
    /\ T = "Uint"
    /\ \E text \in TextInputs :
          \E r \in {Uint_UnmarshalText(u, text)} :
              /\ u' = r.self
              /\ last' = Call("UnmarshalText", Bytes(text), r.err, None)
    /\ UNCHANGED <<T, UintSize, i, u64>>

Call_Uint_SetValid ==
    /\ T = "Uint"
    /\ \E n \in TestUint :
          /\ u' = Uint_SetValid(u, n)
          /\ last' = Call("SetValid", [k |-> "uint64", w |-> n], "nil", None)
    /\ UNCHANGED <<T, UintSize, i, u64>>

Call_Uint_Scan ==
    /\ T = "Uint"
    /\ \E value \in ScanInputs :
          \E r \in {Uint_Scan(u, value)} :
              /\ u' = r.self
              /\ last' = Call("Scan", value, r.err, None)
    /\ UNCHANGED <<T, UintSize, i, u64>>

Call_Uint_Randomize ==
    /\ T = "Uint"
    /\ \E next \in TestInt64, shouldBeNull \in BOOLEAN :
          /\ u' = Uint_Randomize(u, next, shouldBeNull)
          /\ last' = Call("Randomize", [k |-> "rand", w |-> next, null |-> shouldBeNull],
                          "nil", None)
    /\ UNCHANGED <<T, UintSize, i, u64>>

\* MarshalJSON of the Uint, and UnmarshalJSON of the bytes on a zero Uint.
JSONRoundTrip_Uint ==
    /\ T = "Uint"
    /\ \E data \in {Uint_MarshalJSON(u)} :
          \E r \in {Uint_UnmarshalJSON(ZeroUint, data)} :
              last' = Call("JSONRoundTrip", Bytes(data), r.err, r.self)
    /\ UNCHANGED <<T, UintSize, i, u, u64>>

\* MarshalText of the Uint, and UnmarshalText of the bytes on a zero Uint.
TextRoundTrip_Uint ==
    /\ T = "Uint"
    /\ \E text \in {Uint_MarshalText(u)} :
          \E r \in {Uint_UnmarshalText(ZeroUint, text)} :
              last' = Call("TextRoundTrip", Bytes(text), r.err, r.self)
    /\ UNCHANGED <<T, UintSize, i, u, u64>>

\* Value of the Uint, and Scan of the driver value on a zero Uint.
SQLRoundTrip_Uint ==
    /\ T = "Uint"
    /\ \E value \in {Uint_Value(u)} :
          \E r \in {Uint_Scan(ZeroUint, value)} :
              last' = Call("SQLRoundTrip", value, r.err, r.self)
    /\ UNCHANGED <<T, UintSize, i, u, u64>>

Next_Uint ==
    \/ Call_NewUint
    \/ Call_UintFrom
    \/ Call_UintFromPtr
    \/ Call_Uint_UnmarshalJSON
    \/ Call_Uint_UnmarshalText
    \/ Call_Uint_SetValid
    \/ Call_Uint_Scan
    \/ Call_Uint_Randomize
    \/ JSONRoundTrip_Uint
    \/ TextRoundTrip_Uint
    \/ SQLRoundTrip_Uint

(***************************************************************************)
(* Calls on the Uint64                                                     *)
(***************************************************************************)

Call_NewUint64 ==
    /\ T = "Uint64"
    /\ \E n \in TestUint64, valid \in BOOLEAN :
          /\ u64' = NewUint64(n, valid)
          /\ last' = Call("New", [k |-> "uint64", w |-> n], "nil", None)
    /\ UNCHANGED <<T, UintSize, i, u>>

Call_Uint64From ==
    /\ T = "Uint64"
    /\ \E n \in TestUint64 :
          /\ u64' = Uint64From(n)
          /\ last' = Call("From", [k |-> "uint64", w |-> n], "nil", None)
    /\ UNCHANGED <<T, UintSize, i, u>>

Call_Uint64FromPtr ==
    /\ T = "Uint64"
    /\ \E p \in {Ptr(n) : n \in TestUint64} \cup {NilPtr} :
          /\ u64' = Uint64FromPtr(p)
          /\ last' = Call("FromPtr", p, "nil", None)
    /\ UNCHANGED <<T, UintSize, i, u>>

Call_Uint64_UnmarshalJSON ==
    /\ T = "Uint64"
    /\ \E data \in JSONInputs :
          \E r \in {Uint64_UnmarshalJSON(u64, data)} :
              /\ u64' = r.self
              /\ last' = Call("UnmarshalJSON", Bytes(data), r.err, None)
    /\ UNCHANGED <<T, UintSize, i, u>>

Call_Uint64_UnmarshalText ==
    /\ T = "Uint64"
    /\ \E text \in TextInputs :
          \E r \in {Uint64_UnmarshalText(u64, text)} :
              /\ u64' = r.self
              /\ last' = Call("UnmarshalText", Bytes(text), r.err, None)
    /\ UNCHANGED <<T, UintSize, i, u>>

Call_Uint64_SetValid ==
    /\ T = "Uint64"
    /\ \E n \in TestUint64 :
          /\ u64' = Uint64_SetValid(u64, n)
          /\ last' = Call("SetValid", [k |-> "uint64", w |-> n], "nil", None)
    /\ UNCHANGED <<T, UintSize, i, u>>

Call_Uint64_Scan ==
    /\ T = "Uint64"
    /\ \E value \in ScanInputs :
          \E r \in {Uint64_Scan(u64, value)} :
              /\ u64' = r.self
              /\ last' = Call("Scan", value, r.err, None)
    /\ UNCHANGED <<T, UintSize, i, u>>

Call_Uint64_Randomize ==
    /\ T = "Uint64"
    /\ \E next \in TestInt64, shouldBeNull \in BOOLEAN :
          /\ u64' = Uint64_Randomize(u64, next, shouldBeNull)
          /\ last' = Call("Randomize", [k |-> "rand", w |-> next, null |-> shouldBeNull],
                          "nil", None)
    /\ UNCHANGED <<T, UintSize, i, u>>

\* MarshalJSON of the Uint64, and UnmarshalJSON of the bytes on a zero Uint64.
JSONRoundTrip_Uint64 ==
    /\ T = "Uint64"
    /\ \E data \in {Uint64_MarshalJSON(u64)} :
          \E r \in {Uint64_UnmarshalJSON(ZeroUint64, data)} :
              last' = Call("JSONRoundTrip", Bytes(data), r.err, r.self)
    /\ UNCHANGED <<T, UintSize, i, u, u64>>

\* MarshalText of the Uint64, and UnmarshalText of the bytes on a zero Uint64.
TextRoundTrip_Uint64 ==
    /\ T = "Uint64"
    /\ \E text \in {Uint64_MarshalText(u64)} :
          \E r \in {Uint64_UnmarshalText(ZeroUint64, text)} :
              last' = Call("TextRoundTrip", Bytes(text), r.err, r.self)
    /\ UNCHANGED <<T, UintSize, i, u, u64>>

\* Value of the Uint64, and Scan of the driver value on a zero Uint64.
SQLRoundTrip_Uint64 ==
    /\ T = "Uint64"
    /\ \E value \in {Uint64_Value(u64)} :
          \E r \in {Uint64_Scan(ZeroUint64, value)} :
              last' = Call("SQLRoundTrip", value, r.err, r.self)
    /\ UNCHANGED <<T, UintSize, i, u, u64>>

Next_Uint64 ==
    \/ Call_NewUint64
    \/ Call_Uint64From
    \/ Call_Uint64FromPtr
    \/ Call_Uint64_UnmarshalJSON
    \/ Call_Uint64_UnmarshalText
    \/ Call_Uint64_SetValid
    \/ Call_Uint64_Scan
    \/ Call_Uint64_Randomize
    \/ JSONRoundTrip_Uint64
    \/ TextRoundTrip_Uint64
    \/ SQLRoundTrip_Uint64

Next == Next_Int16 \/ Next_Uint \/ Next_Uint64

Spec == Init /\ [][Next]_vars

(***************************************************************************)
(* Properties                                                              *)
(***************************************************************************)

\* The instance the calls are made on.
Inst == CASE T = "Int16" -> i [] T = "Uint" -> u [] T = "Uint64" -> u64

\* From(v) of the value the instance holds.
FromInst ==
    CASE T = "Int16" -> Int16From(i.Int16)
      [] T = "Uint" -> UintFrom(u.Uint)
      [] T = "Uint64" -> Uint64From(u64.Uint64)

\* The number the instance holds is 0.
InstIsNought ==
    CASE T = "Int16" -> i.Int16 = 0
      [] T = "Uint" -> u.Uint = Zero64
      [] T = "Uint64" -> u64.Uint64 = Zero64

\* The zero value of the instance's type.
ZeroInst ==
    CASE T = "Int16" -> ZeroInt16 [] T = "Uint" -> ZeroUint [] T = "Uint64" -> ZeroUint64

\* a + b on 64 bits: the low 64 bits and what is carried out.
Add64(a, b) ==
    LET t4 == a[4] + b[4]
        t3 == a[3] + b[3] + (t4 \div Base)
        t2 == a[2] + b[2] + (t3 \div Base)
        t1 == a[1] + b[1] + (t2 \div Base)
    IN  [w     |-> <<t1 % Base, t2 % Base, t3 % Base, t4 % Base>>,
         carry |-> t1 \div Base]

\* "9223372036854775808" and "18446744073709551615".
Dec63 ==
    <<"9", "2", "2", "3", "3", "7", "2", "0", "3", "6",
      "8", "5", "4", "7", "7", "5", "8", "0", "8">>
DecMaxUint64 ==
    <<"1", "8", "4", "4", "6", "7", "4", "4", "0", "7",
      "3", "7", "0", "9", "5", "5", "1", "6", "1", "5">>

\* C1, as stated: the JSON round trip of From(v) succeeds and gives From(v)
\* back, for every v of each of the three types, 0 included.
C1_JSONRoundTripAll ==
    last.op = "JSONRoundTrip" /\ Inst.Valid =>
        last.err = "nil" /\ last.out = FromInst

\* C1, amended: the JSON round trip of From(v) succeeds and gives From(v)
\* back for every v of an Int16 and every v other than 0 of a Uint or a
\* Uint64; for From(0) of a Uint or a Uint64 it succeeds and gives the
\* invalid instance of value 0.
C1_JSONRoundTrip ==
    last.op = "JSONRoundTrip" /\ Inst.Valid =>
        /\ last.err = "nil"
        /\ last.out = IF T # "Int16" /\ InstIsNought THEN ZeroInst ELSE FromInst

\* The largest Uint64 has gone through JSON and come back.
C1_Witness ==
    /\ T = "Uint64" /\ last.op = "JSONRoundTrip"
    /\ u64 = Uint64From(MaxUint64)
    /\ last.arg = Bytes(DecMaxUint64)
    /\ last.out = u64

\* C2: a decoding call (UnmarshalJSON, UnmarshalText, Scan) that returns an
\* error leaves the instance invalid, whatever it was before.
C2_ErrorLeavesInvalid ==
    last.op \in {"UnmarshalJSON", "UnmarshalText", "Scan"} /\ last.err # "nil" =>
        ~Inst.Valid

\* C3: Int16.UnmarshalJSON of an integer literal n of the int64 range fails
\* with the overflow error when n is outside -32768 .. 32767, on either side,
\* and otherwise succeeds and stores n, valid.
C3_Int16Overflow ==
    T = "Int16" /\ last.op = "UnmarshalJSON" =>
        \A n \in TestInt64 :
            last.arg = Bytes(FormatInt(n)) =>
                IF LtS(n, I64(-MaxInt16 - 1)) \/ LtS(W(MaxInt16), n)
                THEN last.err = "overflow"
                ELSE last.err = "nil" /\ i.Valid /\ FromInt16(i.Int16) = n

\* A JSON number all of whose digits are 0.
IsNoughtNumber(s) == \A k \in 1..Len(s) : IsDigit(s[k]) => s[k] = "0"

\* C4: UnmarshalJSON of the number 0 succeeds and leaves a Uint or a Uint64
\* invalid and an Int16 valid with value 0; every other number that is
\* decoded without an error leaves the instance valid.
C4_ZeroIsNull ==
    last.op = "UnmarshalJSON" =>
        /\ last.arg = Bytes(<<"0">>) =>
              /\ last.err = "nil"
              /\ Inst.Valid = (T = "Int16")
              /\ InstIsNought
        /\ /\ JSONKind(Trim(last.arg.s)) = "float64"
           /\ ~IsNoughtNumber(last.arg.s)
           /\ last.err = "nil"
           => Inst.Valid

\* The same property on the builds where uint has 64 bits: there no decoded
\* number is truncated by uint(i), and the property holds.
C4_ZeroIsNull64 == UintSize = 64 => C4_ZeroIsNull

\* C5: Value() of a valid Uint64 is the int64 of the same number, which is
\* not negative, below 2^63, and from 2^63 on the decimal string that denotes
\* the number: "9223372036854775808" for 2^63.
C5_Uint64Value ==
    T = "Uint64" /\ u64.Valid =>
        IF LtU(u64.Uint64, Pow63)
        THEN /\ Uint64_Value(u64).k = "int64"
             /\ ~IsNeg(Uint64_Value(u64).w)
             /\ Uint64_Value(u64).w = u64.Uint64
        ELSE /\ Uint64_Value(u64).k = "string"
             /\ ParseUint(Uint64_Value(u64).s, 64) = [val |-> u64.Uint64, err |-> "nil"]
             /\ u64.Uint64 = Pow63 => Uint64_Value(u64).s = Dec63

\* Value() of the Uint64 that holds 2^63 has been handed to Scan.
C5_Witness ==
    /\ T = "Uint64" /\ u64 = Uint64From(Pow63)
    /\ last.op = "SQLRoundTrip"
    /\ last.arg = DriverString(Dec63)

\* C6: Uint64.Scan of an int64 succeeds and leaves the Uint64 valid; of a
\* negative n it stores n + 2^64 (18446744073709551615 for -1), and of any
\* other n it stores n.
C6_ScanNegative ==
    T = "Uint64" /\ last.op = "Scan" /\ last.arg.k = "int64" =>
        /\ last.err = "nil"
        /\ u64.Valid
        /\ IF IsNeg(last.arg.w)
           THEN Add64(u64.Uint64, Neg64(last.arg.w)) = [w |-> Zero64, carry |-> 1]
           ELSE u64.Uint64 = last.arg.w
        /\ last.arg.w = I64(-1) => FormatUint(u64.Uint64) = DecMaxUint64

\* Scan(int64(-1)) has been called on the Uint64.
C6_Witness ==
    /\ T = "Uint64" /\ last.op = "Scan"
    /\ last.arg = DriverInt64(I64(-1))
    /\ u64 = Uint64From(MaxUint64)

\* C7: in every state, an invalid instance gives the five null answers
\* (MarshalJSON null, MarshalText no bytes, Value nil, Ptr nil, IsZero true)
\* whatever number it holds, and a valid instance gives none of them.
C7_NullAnswers ==
    /\ Int16_MarshalJSON(i) = NullBytes <=> ~i.Valid
    /\ Int16_MarshalText(i) = <<>> <=> ~i.Valid
    /\ Int16_Value(i) = DriverNil <=> ~i.Valid
    /\ Int16_Ptr(i) = NilPtr <=> ~i.Valid
    /\ Int16_IsZero(i) <=> ~i.Valid
    /\ Uint_MarshalJSON(u) = NullBytes <=> ~u.Valid
    /\ Uint_MarshalText(u) = <<>> <=> ~u.Valid
    /\ Uint_Value(u) = DriverNil <=> ~u.Valid
    /\ Uint_Ptr(u) = NilPtr <=> ~u.Valid
    /\ Uint_IsZero(u) <=> ~u.Valid
    /\ Uint64_MarshalJSON(u64) = NullBytes <=> ~u64.Valid
    /\ Uint64_MarshalText(u64) = <<>> <=> ~u64.Valid
    /\ Uint64_Value(u64) = DriverNil <=> ~u64.Valid
    /\ Uint64_Ptr(u64) = NilPtr <=> ~u64.Valid
    /\ Uint64_IsZero(u64) <=> ~u64.Valid

\* A failed UnmarshalText has left an Int16 invalid with a number other than 0 in it.
C7_Witness ==
    /\ T = "Int16" /\ last.op = "UnmarshalText" /\ last.err # "nil"
    /\ ~i.Valid /\ i.Int16 # 0
    /\ Int16_MarshalJSON(i) = NullBytes

\* C8: the text round trip of From(v) succeeds and gives From(v) back, for
\* every v of each of the three types; that of an invalid instance
\* succeeds and gives an invalid instance.
C8_TextRoundTrip ==
    last.op = "TextRoundTrip" =>
        /\ last.err = "nil"
        /\ IF Inst.Valid THEN last.out = FromInst ELSE ~last.out.Valid

\* The least Int16 has gone through text and come back.
C8_Witness ==
    /\ T = "Int16" /\ last.op = "TextRoundTrip"
    /\ i = Int16From(-MaxInt16 - 1)
    /\ last.arg = Bytes(<<"-", "3", "2", "7", "6", "8">>)
    /\ last.out = i

\* C9: over the calls on one Int16 (UnmarshalJSON, UnmarshalText, SetValid,
\* Scan, Randomize, failing or not), Scan(nil) leaves the set flag false, and
\* every other call leaves it true once it is true.
C9_SetMonotonic ==
    [][T = "Int16"
         /\ last'.op \in {"UnmarshalJSON", "UnmarshalText", "SetValid", "Scan", "Randomize"}
       => IF last'.op = "Scan" /\ last'.arg = DriverNil
          THEN ~Int16_IsSet(i')
          ELSE Int16_IsSet(i) => Int16_IsSet(i')]_vars

\* A call that returned an error, and a Randomize to null, on an Int16 whose
\* set flag is true.
C9_Witness ==
    /\ T = "Int16" /\ Int16_IsSet(i)
    /\ \/ last.op = "UnmarshalJSON" /\ last.err = "overflow"
       \/ last.op = "Randomize" /\ last.arg.null

\* C10: Scan, on a zero instance, of what Value() returns succeeds and gives
\* the validity and, for a valid instance, the number of the instance.
C10_SQLRoundTrip ==
    last.op = "SQLRoundTrip" =>
        /\ last.err = "nil"
        /\ last.out.Valid = Inst.Valid
        /\ Inst.Valid => last.out = Inst \/ (T = "Int16" /\ last.out = FromInst)

====
